---- MODULE Spec2Model ----
(***************************************************************************)
(* Order-amount computation of the predict.fun SDK OrderBuilder:           *)
(* retainSignificantDigits, processBook, getLimitOrderAmounts and          *)
(* getMarketOrderAmounts (by quantity and by value).                       *)
(*                                                                         *)
(* Amounts are bigints in "wei".  The program's wei has 18 decimals        *)
(* (precision = 10^18); TLC's integers are 32 bit, so the model's wei has  *)
(* WeiDecimals decimals and every threshold of the code is kept at its     *)
(* ratio to the precision: 1e16 = precision / 100, 1e18 = precision.       *)
(* A call is drawn in Init; one action per public operation applies it.    *)
(*                                                                         *)
(* Order assembly and signing: buildOrder, generateOrderSalt,              *)
(* buildTypedData, buildTypedDataHash and signTypedDataOrder, on a builder *)
(* with or without a signer and a predictAccount.  Date.now() is the       *)
(* variable clock, in milliseconds since an epoch shifted by a whole       *)
(* number of seconds so that the dates fit TLC's integers; MAX_SALT is     *)
(* 2^SaltBits; console warnings and calls to the signer are kept in        *)
(* effects.                                                                *)
(*                                                                         *)
(* Construction and transactions: make looks the owner of the predict      *)
(* account up before it returns a builder; setApprovals, cancelOrders and  *)
(* cancelNegRiskOrders take one action per await.  results is the results  *)
(* array of setApprovals, chain the contract calls made so far (reads,     *)
(* validations and the transactions handed to handleTransaction).          *)
(***************************************************************************)
EXTENDS Integers, Sequences, FiniteSets, TLC

\* ------------------------------------------------------------------ bounds
WeiDecimals == 3        \* decimals of the model's wei (18 in the program)
MaxLevels == 2          \* levels on the walked side of a book
MaxPrice == 40          \* dense range of limit prices, 0..MaxPrice
MaxQty == 40            \* dense range of limit quantities, -1..MaxQty
MaxValueUnits == 4      \* by-value budgets, in whole currency units
MaxV == 1300            \* dense range of retainSignificantDigits values
MaxOrders == 2          \* orders of a cancellation
MaxTokenId == 3         \* token ids of the orders of a cancellation
MaxDigits == 6          \* digits argument of retainSignificantDigits
SaltBits == 4           \* MAX_SALT is 2^SaltBits (2^31 in the program)
MaxClockAdvance == 1    \* milliseconds that can pass between two clock reads of a call

\* ------------------------------------------------------------------ state
VARIABLES
  pc,        \* "call": the call is about to be made; "done": it has returned or thrown
  call,      \* the operation called, its arguments and the builder it is called on
  result,    \* what the call produced
  clock,     \* Date.now(), in milliseconds since the model's epoch
  effects,   \* what the call did outside the builder: console warnings, collaborator calls
  runs,      \* the runs of a repeated round trip: the clock each started at, its result
  results,   \* setApprovals: the results array, one TransactionResult per finished step
  chain      \* the contract calls made so far: reads, validations, transactions

vars == <<pc, call, result, clock, effects, runs, results, chain>>

\* --------------------------------------------------------------- constants
BUY == 0
SELL == 1

precision == 10 ^ WeiDecimals

\* BigInt(1e16) with precision 1e18: one hundredth of a unit
MIN_QUANTITY == precision \div 100

\* BigInt(1e18) with precision 1e18: one whole unit
MIN_VALUE == precision

FIVE_MINUTES_SECONDS == 60 * 5

STALE_BOOK_WARNING == "[WARN]: Order book is potentially stale. Consider using a more recent one."

\* ----------------------------------------------------------------- bigint
Abs(n) == IF n < 0 THEN -n ELSE n

\* bigint division truncates toward zero (b > 0 at every use)
BigDiv(a, b) == IF a < 0 THEN -((-a) \div b) ELSE a \div b

\* parseEther(x.toString()): a decimal number to wei; the numbers of a depth
\* level (JS numbers) are kept in hundredths, so 50 is 0.5 and 300 is 3
parseEther(x) == x * (precision \div 100)

RECURSIVE NumDigits(_)
NumDigits(n) == IF n < 10 THEN 1 ELSE 1 + NumDigits(n \div 10)

\* C9 mutant: the sign is dropped
retainSignificantDigits_nosign(value, digits) ==
  IF value = 0 THEN 0
  ELSE LET abs == Abs(value)
           excess == NumDigits(abs) - digits
       IN IF excess <= 0 THEN abs ELSE (abs \div (10 ^ excess)) * (10 ^ excess)

\* C10 mutant: rounds to nearest instead of truncating
retainSignificantDigits_round(value, digits) ==
  IF value = 0 THEN 0
  ELSE LET abs == Abs(value)
           excess == NumDigits(abs) - digits
           kept == IF excess <= 0 THEN abs
                   ELSE ((abs + (10 ^ excess) \div 2) \div (10 ^ excess)) * (10 ^ excess)
       IN IF value < 0 THEN -kept ELSE kept

\* keeps the `digits` leading decimal digits of value, zeroes the lower ones
retainSignificantDigits(value, digits) ==
  IF value = 0 THEN 0
  ELSE LET abs == Abs(value)
           excess == NumDigits(abs) - digits
           kept == IF excess <= 0 THEN abs
                   ELSE (abs \div (10 ^ excess)) * (10 ^ excess)
       IN IF value < 0 THEN -kept ELSE kept

\* ---------------------------------------------------------------- results
\* what a call produced: the error thrown ("" when none) and the value
\* returned, as a sequence of length 0 (nothing returned) or 1
Throw(e) == [error |-> e, value |-> <<>>]
Return(v) == [error |-> "", value |-> <<v>>]
NoResult == [error |-> "", value |-> <<>>]

\* ------------------------------------------------------------ processBook
reduceInit == [quantityWei |-> 0, priceWei |-> 0, lastPriceWei |-> 0]

\* C23 mutant: a level is always consumed whole
processBookStep_whole(acc, level, quantityWei) ==
  LET remainingQtyWei == quantityWei - acc.quantityWei
      priceWei == parseEther(level[1])
      qtyWei == parseEther(level[2])
  IN IF remainingQtyWei <= 0 THEN acc
     ELSE [quantityWei |-> acc.quantityWei + qtyWei,
           priceWei |-> acc.priceWei + BigDiv(priceWei * qtyWei, precision),
           lastPriceWei |-> priceWei]

\* C25 mutant: lastPrice stays at the first price touched
processBookStep_first(acc, level, quantityWei) ==
  LET remainingQtyWei == quantityWei - acc.quantityWei
      priceWei == parseEther(level[1])
      qtyWei == parseEther(level[2])
      firstPriceWei == IF acc.quantityWei = 0 THEN priceWei ELSE acc.lastPriceWei
  IN IF remainingQtyWei <= 0 THEN acc
     ELSE IF remainingQtyWei < qtyWei
       THEN [quantityWei |-> acc.quantityWei + remainingQtyWei,
             priceWei |-> acc.priceWei + BigDiv(priceWei * remainingQtyWei, precision),
             lastPriceWei |-> firstPriceWei]
       ELSE [quantityWei |-> acc.quantityWei + qtyWei,
             priceWei |-> acc.priceWei + BigDiv(priceWei * qtyWei, precision),
             lastPriceWei |-> firstPriceWei]

processBookStep(acc, level, quantityWei) ==
  LET remainingQtyWei == quantityWei - acc.quantityWei
      priceWei == parseEther(level[1])
      qtyWei == parseEther(level[2])
  IN IF remainingQtyWei <= 0 THEN acc
     ELSE IF remainingQtyWei < qtyWei
       THEN [quantityWei |-> acc.quantityWei + remainingQtyWei,
             priceWei |-> acc.priceWei + BigDiv(priceWei * remainingQtyWei, precision),
             lastPriceWei |-> priceWei]
       ELSE [quantityWei |-> acc.quantityWei + qtyWei,
             priceWei |-> acc.priceWei + BigDiv(priceWei * qtyWei, precision),
             lastPriceWei |-> priceWei]

RECURSIVE processBookFrom(_, _, _, _)
processBookFrom(depths, i, acc, quantityWei) ==
  IF i > Len(depths) THEN acc
  ELSE processBookFrom(depths, i + 1, processBookStep(acc, depths[i], quantityWei), quantityWei)

processBook(depths, quantityWei) == processBookFrom(depths, 1, reduceInit, quantityWei)

\* ------------------------------------------------ getMarketOrderAmounts
Amounts(pricePerShare, makerAmount, takerAmount, lastPrice) ==
  [pricePerShare |-> pricePerShare, makerAmount |-> makerAmount,
   takerAmount |-> takerAmount, lastPrice |-> lastPrice]

\* C1 mutant: the minimum itself is rejected
getMarketOrderAmountsByQuantity_min(data, book) ==
  LET qty == retainSignificantDigits(data.quantityWei, 5)
      walked == processBook(IF data.side = BUY THEN book.asks ELSE book.bids, qty)
      pricePerShare == IF walked.quantityWei > 0
                       THEN BigDiv(walked.priceWei * precision, walked.quantityWei) ELSE 0
      collateral == BigDiv(walked.lastPriceWei * walked.quantityWei, precision)
  IN IF qty <= MIN_QUANTITY THEN Throw("InvalidQuantityError")
     ELSE IF data.side = BUY
       THEN Return(Amounts(pricePerShare, collateral, walked.quantityWei, walked.lastPriceWei))
       ELSE Return(Amounts(pricePerShare, walked.quantityWei, collateral, walked.lastPriceWei))

\* C5 mutant: the collateral is the cost of the walk, not lastPrice * filled
getMarketOrderAmountsByQuantity_cost(data, book) ==
  LET qty == retainSignificantDigits(data.quantityWei, 5)
      walked == processBook(IF data.side = BUY THEN book.asks ELSE book.bids, qty)
      pricePerShare == IF walked.quantityWei > 0
                       THEN BigDiv(walked.priceWei * precision, walked.quantityWei) ELSE 0
      collateral == walked.priceWei
  IN IF qty < MIN_QUANTITY THEN Throw("InvalidQuantityError")
     ELSE IF data.side = BUY
       THEN Return(Amounts(pricePerShare, collateral, walked.quantityWei, walked.lastPriceWei))
       ELSE Return(Amounts(pricePerShare, walked.quantityWei, collateral, walked.lastPriceWei))

\* C6 mutant: no guard on the division by the filled quantity (a bigint
\* division by zero throws RangeError)
getMarketOrderAmountsByQuantity_noguard(data, book) ==
  LET qty == retainSignificantDigits(data.quantityWei, 5)
      walked == processBook(IF data.side = BUY THEN book.asks ELSE book.bids, qty)
      pricePerShare == IF walked.quantityWei # 0
                       THEN BigDiv(walked.priceWei * precision, walked.quantityWei) ELSE 0
      collateral == BigDiv(walked.lastPriceWei * walked.quantityWei, precision)
  IN IF qty < MIN_QUANTITY THEN Throw("InvalidQuantityError")
     ELSE IF walked.quantityWei = 0 THEN Throw("RangeError")
     ELSE IF data.side = BUY
       THEN Return(Amounts(pricePerShare, collateral, walked.quantityWei, walked.lastPriceWei))
       ELSE Return(Amounts(pricePerShare, walked.quantityWei, collateral, walked.lastPriceWei))

getMarketOrderAmountsByQuantity(data, book) ==
  LET qty == retainSignificantDigits(data.quantityWei, 5)
      walked == processBook(IF data.side = BUY THEN book.asks ELSE book.bids, qty)
      pricePerShare == IF walked.quantityWei > 0
                       THEN BigDiv(walked.priceWei * precision, walked.quantityWei) ELSE 0
      collateral == BigDiv(walked.lastPriceWei * walked.quantityWei, precision)
  IN IF qty < MIN_QUANTITY THEN Throw("InvalidQuantityError")
     ELSE IF data.side = BUY
       THEN Return(Amounts(pricePerShare, collateral, walked.quantityWei, walked.lastPriceWei))
       ELSE Return(Amounts(pricePerShare, walked.quantityWei, collateral, walked.lastPriceWei))

valueInit == [numberOfShares |-> 0, totalPrice |-> 0]

\* C26 mutant: the tier that does not fit the remaining spend is bought whole
valueStep_whole(acc, level, currencyAmountWei) ==
  LET priceWei == parseEther(level[1])
      qtyWei == parseEther(level[2])
      remainingSpend == currencyAmountWei - acc.totalPrice
  IN IF remainingSpend <= 0 THEN acc
     ELSE [numberOfShares |-> acc.numberOfShares + qtyWei,
           totalPrice |-> acc.totalPrice + BigDiv(priceWei * qtyWei, precision)]

\* C28 mutant: the shares of the tier that does not fit are rounded up
valueStep_up(acc, level, currencyAmountWei) ==
  LET priceWei == parseEther(level[1])
      qtyWei == parseEther(level[2])
      remainingSpend == currencyAmountWei - acc.totalPrice
      tierTotalPrice == BigDiv(priceWei * qtyWei, precision)
      fractionalShareAmount == IF priceWei > 0
                               THEN BigDiv(remainingSpend * precision + priceWei - 1, priceWei)
                               ELSE 0
  IN IF remainingSpend <= 0 THEN acc
     ELSE IF tierTotalPrice <= remainingSpend
       THEN [numberOfShares |-> acc.numberOfShares + qtyWei,
             totalPrice |-> acc.totalPrice + BigDiv(priceWei * qtyWei, precision)]
       ELSE [numberOfShares |-> acc.numberOfShares + fractionalShareAmount,
             totalPrice |-> acc.totalPrice + BigDiv(priceWei * fractionalShareAmount, precision)]

\* one step of the reduce over asks: the whole tier when its cost fits the
\* remaining spend, else as many shares as the remaining spend buys
valueStep(acc, level, currencyAmountWei) ==
  LET priceWei == parseEther(level[1])
      qtyWei == parseEther(level[2])
      remainingSpend == currencyAmountWei - acc.totalPrice
      tierTotalPrice == BigDiv(priceWei * qtyWei, precision)
      fractionalShareAmount == IF priceWei > 0
                               THEN BigDiv(remainingSpend * precision, priceWei) ELSE 0
  IN IF remainingSpend <= 0 THEN acc
     ELSE IF tierTotalPrice <= remainingSpend
       THEN [numberOfShares |-> acc.numberOfShares + qtyWei,
             totalPrice |-> acc.totalPrice + BigDiv(priceWei * qtyWei, precision)]
       ELSE [numberOfShares |-> acc.numberOfShares + fractionalShareAmount,
             totalPrice |-> acc.totalPrice + BigDiv(priceWei * fractionalShareAmount, precision)]

RECURSIVE valueWalkFrom(_, _, _, _)
valueWalkFrom(asks, i, acc, currencyAmountWei) ==
  IF i > Len(asks) THEN acc
  ELSE valueWalkFrom(asks, i + 1, valueStep(acc, asks[i], currencyAmountWei), currencyAmountWei)

valueWalk(asks, currencyAmountWei) == valueWalkFrom(asks, 1, valueInit, currencyAmountWei)

\* C7 mutant: the budget is checked against the quantity minimum
getMarketOrderAmountsByValue_min(data, book) ==
  LET roundedShares == retainSignificantDigits(valueWalk(book.asks, data.valueWei).numberOfShares, 5)
      amounts == getMarketOrderAmountsByQuantity(
                   [side |-> data.side, hasValueWei |-> FALSE,
                    quantityWei |-> roundedShares, valueWei |-> 0], book)
  IN IF data.valueWei < MIN_QUANTITY THEN Throw("InvalidQuantityError")
     ELSE IF amounts.error # "" THEN amounts
     ELSE LET a == amounts.value[1]
          IN Return(Amounts(a.pricePerShare, BigDiv(a.lastPrice * roundedShares, precision),
                            roundedShares, a.lastPrice))

\* C8 mutant: the shares of the walk are not truncated to 5 significant digits
getMarketOrderAmountsByValue_raw(data, book) ==
  LET roundedShares == valueWalk(book.asks, data.valueWei).numberOfShares
      amounts == getMarketOrderAmountsByQuantity(
                   [side |-> data.side, hasValueWei |-> FALSE,
                    quantityWei |-> roundedShares, valueWei |-> 0], book)
  IN IF data.valueWei < MIN_VALUE THEN Throw("InvalidQuantityError")
     ELSE IF amounts.error # "" THEN amounts
     ELSE LET a == amounts.value[1]
          IN Return(Amounts(a.pricePerShare, BigDiv(a.lastPrice * roundedShares, precision),
                            roundedShares, a.lastPrice))

\* C22 mutant: the collateral is the budget itself
getMarketOrderAmountsByValue_budget(data, book) ==
  LET roundedShares == retainSignificantDigits(valueWalk(book.asks, data.valueWei).numberOfShares, 5)
      amounts == getMarketOrderAmountsByQuantity(
                   [side |-> data.side, hasValueWei |-> FALSE,
                    quantityWei |-> roundedShares, valueWei |-> 0], book)
  IN IF data.valueWei < MIN_VALUE THEN Throw("InvalidQuantityError")
     ELSE IF amounts.error # "" THEN amounts
     ELSE LET a == amounts.value[1]
          IN Return(Amounts(a.pricePerShare, data.valueWei, roundedShares, a.lastPrice))

\* C27 mutant: a share count the by-quantity pass refuses gives zero amounts
getMarketOrderAmountsByValue_lenient(data, book) ==
  LET roundedShares == retainSignificantDigits(valueWalk(book.asks, data.valueWei).numberOfShares, 5)
      amounts == getMarketOrderAmountsByQuantity(
                   [side |-> data.side, hasValueWei |-> FALSE,
                    quantityWei |-> roundedShares, valueWei |-> 0], book)
  IN IF data.valueWei < MIN_VALUE THEN Throw("InvalidQuantityError")
     ELSE IF amounts.error # "" THEN Return(Amounts(0, 0, roundedShares, 0))
     ELSE LET a == amounts.value[1]
          IN Return(Amounts(a.pricePerShare, BigDiv(a.lastPrice * roundedShares, precision),
                            roundedShares, a.lastPrice))

\* the error of the by-quantity pass propagates to the caller
getMarketOrderAmountsByValue(data, book) ==
  LET roundedShares == retainSignificantDigits(valueWalk(book.asks, data.valueWei).numberOfShares, 5)
      amounts == getMarketOrderAmountsByQuantity(
                   [side |-> data.side, hasValueWei |-> FALSE,
                    quantityWei |-> roundedShares, valueWei |-> 0], book)
  IN IF data.valueWei < MIN_VALUE THEN Throw("InvalidQuantityError")
     ELSE IF amounts.error # "" THEN amounts
     ELSE LET a == amounts.value[1]
          IN Return(Amounts(a.pricePerShare, BigDiv(a.lastPrice * roundedShares, precision),
                            roundedShares, a.lastPrice))

\* the staleness test of both market paths, on the clock read at the call
isStale(book) == clock - book.updateTimestampMs > FIVE_MINUTES_SECONDS * 1000

\* the console warnings of a market call: one per path entered, the by-value
\* path enters the by-quantity path once the budget has passed its minimum
staleWarnings(data, book) ==
  LET warning == IF isStale(book) THEN <<STALE_BOOK_WARNING>> ELSE <<>>
  IN IF data.side = BUY /\ data.hasValueWei /\ data.valueWei >= MIN_VALUE
     THEN warning \o warning
     ELSE warning

\* C11 mutant: a stale book is refused
getMarketOrderAmounts_stale(data, book) ==
  IF isStale(book) THEN Throw("StaleBookError")
  ELSE IF data.side = BUY /\ data.hasValueWei
  THEN getMarketOrderAmountsByValue(data, book)
  ELSE getMarketOrderAmountsByQuantity(data, book)

\* data.hasValueWei is `"valueWei" in data`
getMarketOrderAmounts(data, book) ==
  IF data.side = BUY /\ data.hasValueWei
  THEN getMarketOrderAmountsByValue(data, book)
  ELSE getMarketOrderAmountsByQuantity(data, book)

\* ------------------------------------------------- getLimitOrderAmounts
\* C2 mutant: the inputs are used as given, without truncation
getLimitOrderAmounts_raw(data) ==
  LET price == data.pricePerShareWei
      qty == data.quantityWei
  IN IF data.quantityWei < MIN_QUANTITY THEN Throw("InvalidQuantityError")
     ELSE IF data.side = BUY
       THEN Return(Amounts(price, BigDiv(price * qty, precision), qty, price))
       ELSE Return(Amounts(price, qty, BigDiv(price * qty, precision), price))

\* C3 mutant: SELL returns the amounts in the BUY order
getLimitOrderAmounts_noswap(data) ==
  LET price == retainSignificantDigits(data.pricePerShareWei, 3)
      qty == retainSignificantDigits(data.quantityWei, 5)
  IN IF data.quantityWei < MIN_QUANTITY THEN Throw("InvalidQuantityError")
     ELSE Return(Amounts(price, BigDiv(price * qty, precision), qty, price))

getLimitOrderAmounts(data) ==
  LET price == retainSignificantDigits(data.pricePerShareWei, 3)
      qty == retainSignificantDigits(data.quantityWei, 5)
  IN IF data.quantityWei < MIN_QUANTITY THEN Throw("InvalidQuantityError")
     ELSE IF data.side = BUY
       THEN Return(Amounts(price, BigDiv(price * qty, precision), qty, price))
       ELSE Return(Amounts(price, qty, BigDiv(price * qty, precision), price))

\* ------------------------------------------------------------ order builder
\* An optional value (undefined | v) is a sequence: <<>> or <<v>>.
\* Dates and the clock are milliseconds since the model's epoch, a whole number
\* of seconds after 1970, so that flooring to seconds commutes with the shift.

\* String(n) of a non-negative number or bigint: its decimal digits
RECURSIVE String(_)
String(n) == IF n < 10 THEN <<n>> ELSE String(n \div 10) \o <<n % 10>>

\* Math.round of the fraction num / den: the nearest integer, halves go up
MathRound(num, den) == (2 * num + den) \div (2 * den)

\* MAX_SALT = 2_147_483_648 = 2^31 in the program
MAX_SALT == 2 ^ SaltBits

\* Math.random() is random / RandomSteps for random in 0 .. RandomSteps - 1:
\* in [0, 1), on a grid finer than 1 / MAX_SALT as the doubles are
RandomSteps == 4 * MAX_SALT

generateOrderSalt(random) ==
  String(MathRound(random * MAX_SALT, RandomSteps))

\* this.generateOrderSalt: options.generateSalt ?? generateOrderSalt
callGenerateOrderSalt(builder, random) ==
  IF builder.generateSalt = <<>> THEN generateOrderSalt(random)
  ELSE builder.generateSalt[1]

\* new Date("2100-01-01T00:00:00Z"), the same instant on the model's epoch
fallbackExpiresAt == 2 * 10 ^ 9

IGNORED_IDENTITY_WARNING == "[WARN]: When using a Predict account the maker and signer are ignored."
IGNORED_EXPIRES_AT_WARNING == "[WARN]: expiresAt for market orders is ignored."

ZeroAddress == "0x0000000000000000000000000000000000000000"

EOA == 0

expiresAt(data) == IF data.expiresAt = <<>> THEN fallbackExpiresAt ELSE data.expiresAt[1]

limitExpiration(data) == expiresAt(data) \div 1000

\* C19 mutant: the window is not floored to a second
marketExpiration_ms(now) == now + FIVE_MINUTES_SECONDS * 1000

\* Math.floor(now / 1000 + 300)
marketExpiration(now) == (now + FIVE_MINUTES_SECONDS * 1000) \div 1000

\* C12 mutant: an expiry at the very instant of the check passes
invalidExpiration_lenient(strategy, data, now) ==
  strategy # "MARKET" /\ expiresAt(data) < now

invalidExpiration(strategy, data, now) ==
  strategy # "MARKET" /\ expiresAt(data) <= now

\* C13 mutant: a market order keeps the caller's expiry
orderExpiration_kept(strategy, data, now) ==
  String(IF strategy = "MARKET" /\ data.expiresAt = <<>>
         THEN marketExpiration(now) ELSE limitExpiration(data))

orderExpiration(strategy, data, now) ==
  String(IF strategy = "MARKET" THEN marketExpiration(now) ELSE limitExpiration(data))

\* data?.signer ?? this.signer!.address: <<>> when the builder has no signer
\* to read the address of, and the read throws a TypeError
resolveSigner(builder, data) ==
  IF data.signer # <<>> THEN data.signer ELSE builder.signer

\* C14 mutant: the maker is not compared with the signer
makerSignerMismatch_unchecked(data, signer) == FALSE

makerSignerMismatch(data, signer) ==
  data.maker # <<>> /\ signer # data.maker[1]

orderMaker(builder, data, signer) ==
  IF builder.predictAccount # <<>> THEN builder.predictAccount[1]
  ELSE IF data.maker # <<>> THEN data.maker[1]
  ELSE signer

\* C15 mutant: only the maker becomes the predictAccount
orderSigner_own(builder, signer) == signer

orderSigner(builder, signer) ==
  IF builder.predictAccount # <<>> THEN builder.predictAccount[1] ELSE signer

\* C17 mutant: the generator is always asked
orderSalt_generated(builder, data, random) == callGenerateOrderSalt(builder, random)

orderSalt(builder, data, random) ==
  IF data.salt # <<>> THEN String(data.salt[1]) ELSE callGenerateOrderSalt(builder, random)

buildOrderWarnings(builder, strategy, data) ==
  (IF builder.predictAccount # <<>> /\ (data.maker # <<>> \/ data.signer # <<>>)
   THEN <<IGNORED_IDENTITY_WARNING>> ELSE <<>>)
  \o (IF strategy = "MARKET" /\ data.expiresAt # <<>>
      THEN <<IGNORED_EXPIRES_AT_WARNING>> ELSE <<>>)

\* now is the clock read for the market window, later the one read by the
\* expiry check; random is the draw of Math.random() if the salt needs one
buildOrder(builder, strategy, data, now, later, random) ==
  LET signer == resolveSigner(builder, data)
  IN IF invalidExpiration(strategy, data, later) THEN Throw("InvalidExpirationError")
     ELSE IF signer = <<>> THEN Throw("TypeError")
     ELSE IF makerSignerMismatch(data, signer[1]) THEN Throw("MakerSignerMismatchError")
     ELSE Return(
       [salt |-> orderSalt(builder, data, random),
        maker |-> orderMaker(builder, data, signer[1]),
        signer |-> orderSigner(builder, signer[1]),
        taker |-> IF data.taker # <<>> THEN data.taker[1] ELSE ZeroAddress,
        tokenId |-> String(data.tokenId),
        makerAmount |-> String(data.makerAmount),
        takerAmount |-> String(data.takerAmount),
        expiration |-> orderExpiration(strategy, data, now),
        nonce |-> IF data.nonce # <<>> THEN String(data.nonce[1]) ELSE String(0),
        feeRateBps |-> String(data.feeRateBps),
        side |-> data.side,
        signatureType |-> IF data.signatureType # <<>> THEN data.signatureType[1] ELSE EOA])

\* ------------------------------------------------------------- typed data
BlastMainnet == 81457
BlastSepolia == 168587773

AddressesByChainId(chainId) ==
  IF chainId = BlastMainnet
  THEN [CTF_EXCHANGE |-> "0x739f0331594029064C252559436eDce0E468E37a",
        NEG_RISK_CTF_EXCHANGE |-> "0x6a3796C21e733a3016Bc0bA41edF763016247e72"]
  ELSE [CTF_EXCHANGE |-> "0xba9605D6d0108ed3787fD9423F6d28BF8c7dE2DD",
        NEG_RISK_CTF_EXCHANGE |-> "0xd95787e7146204037704eCCCB3fA3A67801fea10"]

PROTOCOL_NAME == "predict.fun CTF Exchange"
PROTOCOL_VERSION == "1"

\* C18 mutant: every order is routed to the plain exchange
buildTypedData_plain(builder, order, options) ==
  [primaryType |-> "Order",
   types |-> <<"EIP712Domain", "Order">>,
   domain |-> [name |-> PROTOCOL_NAME, version |-> PROTOCOL_VERSION,
               chainId |-> builder.chainId,
               verifyingContract |-> builder.addresses.CTF_EXCHANGE],
   message |-> [f \in DOMAIN order |-> order[f]]]

\* types names the two structures, EIP712_DOMAIN and ORDER_STRUCTURE;
\* { ...order } is a copy with the same fields and values
buildTypedData(builder, order, options) ==
  [primaryType |-> "Order",
   types |-> <<"EIP712Domain", "Order">>,
   domain |-> [name |-> PROTOCOL_NAME, version |-> PROTOCOL_VERSION,
               chainId |-> builder.chainId,
               verifyingContract |-> IF options.isNegRisk
                                     THEN builder.addresses.NEG_RISK_CTF_EXCHANGE
                                     ELSE builder.addresses.CTF_EXCHANGE],
   message |-> [f \in DOMAIN order |-> order[f]]]

\* ------------------------------------------------------ buildTypedDataHash
\* the addresses the encoder accepts; any other string makes it throw
Addresses ==
  <<ZeroAddress, "0xA11ce00000000000000000000000000000000001",
    "0xB0b0000000000000000000000000000000000002",
    "0xACC0000000000000000000000000000000000003",
    "0x739f0331594029064C252559436eDce0E468E37a",
    "0x6a3796C21e733a3016Bc0bA41edF763016247e72",
    "0xba9605D6d0108ed3787fD9423F6d28BF8c7dE2DD",
    "0xd95787e7146204037704eCCCB3fA3A67801fea10">>

isAddress(a) == \E i \in 1 .. Len(Addresses) : Addresses[i] = a

\* the value of an address as a number: its place among the addresses
addressValue(a) == CHOOSE i \in 1 .. Len(Addresses) : Addresses[i] = a

\* the uint256 a decimal string stands for
RECURSIVE uint256(_)
uint256(digits) ==
  IF digits = <<>> THEN 0
  ELSE 10 * uint256(SubSeq(digits, 1, Len(digits) - 1)) + digits[Len(digits)]

\* the encoding of domain and message, field by field in the order of
\* EIP712_DOMAIN (after the constant name and version) and ORDER_STRUCTURE
encode(typedData) ==
  LET d == typedData.domain
      m == typedData.message
  IN <<d.chainId, addressValue(d.verifyingContract),
       uint256(m.salt), addressValue(m.maker), addressValue(m.signer), addressValue(m.taker),
       uint256(m.tokenId), uint256(m.makerAmount), uint256(m.takerAmount),
       uint256(m.expiration), uint256(m.nonce), uint256(m.feeRateBps),
       m.side, m.signatureType>>

\* keccak256 is stood in for by a polynomial digest of the encoding
RECURSIVE digest(_)
digest(words) ==
  IF words = <<>> THEN 7
  ELSE (31 * digest(SubSeq(words, 1, Len(words) - 1)) + (words[Len(words)] % 65521)) % 65521

encodable(typedData) ==
  /\ isAddress(typedData.domain.verifyingContract)
  /\ \A f \in {"maker", "signer", "taker"} : isAddress(typedData.message[f])

buildTypedDataHash(typedData) ==
  IF encodable(typedData) THEN Return(digest(encode(typedData)))
  ELSE Throw("FailedTypedDataEncoderError")

\* ------------------------------------------------------ signTypedDataOrder
SIGNATURE == "0xmocksignature"

\* the collaborator a builder with a signer asks for the signature
signingCollaborator(builder) ==
  IF builder.predictAccount # <<>> THEN "signMessage" ELSE "signTypedData"

\* the calls made to the signing collaborator
signTypedDataOrderCalls(builder, typedData) ==
  IF builder.signer = <<>> THEN <<>>
  ELSE IF builder.predictAccount # <<>> /\ buildTypedDataHash(typedData).error # "" THEN <<>>
  ELSE <<signingCollaborator(builder)>>

\* signed tells whether the collaborator returns a signature or rejects;
\* the predictAccount's signature is tagged with 0x01 and the validator
signTypedDataOrder(builder, typedData, signed) ==
  LET order == typedData.message
      signature == IF builder.predictAccount # <<>>
                   THEN <<"0x01", "ECDSA_VALIDATOR", SIGNATURE>>
                   ELSE <<SIGNATURE>>
  IN IF builder.signer = <<>> THEN Throw("MissingSignerError")
     ELSE IF signTypedDataOrderCalls(builder, typedData) = <<>> \/ ~signed
       THEN Throw("FailedOrderSignError")
     ELSE Return([f \in DOMAIN order \cup {"signature"} |->
                    IF f = "signature" THEN signature ELSE order[f]])

\* the round trip buildTypedDataHash(buildTypedData(buildOrder(strategy, data), options))
orderHash(builder, strategy, data, options, now, later, random) ==
  LET order == buildOrder(builder, strategy, data, now, later, random)
  IN IF order.error # "" THEN order
     ELSE buildTypedDataHash(buildTypedData(builder, order.value[1], options))

\* --------------------------------------------------------------------- make
\* the read of the validator's storage that make issues before it answers
OWNER_LOOKUP == "ECDSA_VALIDATOR.ecdsaValidatorStorage"

\* make looks the owner up when it is given a signer and a predictAccount
makeLooksUp(args) == args.signer # <<>> /\ args.predictAccount # <<>>

\* C21 mutant: the builder is returned whoever the owner is
makeResolve_unchecked(args, owner) == Return(args)

\* the continuation of the lookup: owner is what the validator has answered
makeResolve(args, owner) ==
  IF owner # args.signer[1] THEN Throw("InvalidSignerError") ELSE Return(args)

\* ------------------------------------------------ approvals, cancellations
\* this.contracts: make builds the contracts when it is given a signer
contractsDefined(builder) == builder.signer # <<>>

\* a TransactionResult. outcome "none": { success: true } with no transaction;
\* "receipt": the receipt has status 1; "reverted": a receipt of another
\* status; "cause": estimateGas, the send or the wait threw
TransactionResult(outcome) ==
  [success |-> outcome \in {"none", "receipt"}, outcome |-> outcome]

\* what handleTransaction can come to
TransactionOutcomes == {"receipt", "reverted", "cause"}

\* a transaction goes through the kernel of the predict account, if any
transactionRoute(builder) == IF builder.predictAccount # <<>> THEN "KERNEL" ELSE "signer"

\* getApprovalOps: the read and the transaction of an approval
approvalRead(approval) ==
  [fn |-> IF approval.type = "ERC1155" THEN "isApprovedForAll" ELSE "allowance",
   on |-> IF approval.type = "ERC1155" THEN "CONDITIONAL_TOKENS" ELSE "USDB",
   about |-> approval.key, tokenIds |-> <<>>, via |-> "signer"]

approvalTransaction(builder, approval) ==
  [fn |-> IF approval.type = "ERC1155" THEN "setApprovalForAll" ELSE "approve",
   on |-> IF approval.type = "ERC1155" THEN "CONDITIONAL_TOKENS" ELSE "USDB",
   about |-> approval.key, tokenIds |-> <<>>, via |-> transactionRoute(builder)]

\* C29 mutant: the allowances are set before the approvals
approvals_allowancesFirst ==
  << [step |-> "setCtfExchangeAllowance", key |-> "CTF_EXCHANGE", type |-> "ERC20"],
     [step |-> "setNegRiskCtfExchangeAllowance", key |-> "NEG_RISK_CTF_EXCHANGE", type |-> "ERC20"],
     [step |-> "setCtfExchangeApproval", key |-> "CTF_EXCHANGE", type |-> "ERC1155"],
     [step |-> "setNegRiskCtfExchangeApproval", key |-> "NEG_RISK_CTF_EXCHANGE", type |-> "ERC1155"],
     [step |-> "setNegRiskAdapterApproval", key |-> "NEG_RISK_ADAPTER", type |-> "ERC1155"] >>

\* the approvals array of setApprovals
approvals ==
  << [step |-> "setCtfExchangeApproval", key |-> "CTF_EXCHANGE", type |-> "ERC1155"],
     [step |-> "setNegRiskCtfExchangeApproval", key |-> "NEG_RISK_CTF_EXCHANGE", type |-> "ERC1155"],
     [step |-> "setNegRiskAdapterApproval", key |-> "NEG_RISK_ADAPTER", type |-> "ERC1155"],
     [step |-> "setCtfExchangeAllowance", key |-> "CTF_EXCHANGE", type |-> "ERC20"],
     [step |-> "setNegRiskCtfExchangeAllowance", key |-> "NEG_RISK_CTF_EXCHANGE", type |-> "ERC20"] >>

\* the value setApprovals returns
setApprovalsResult(transactions) ==
  [success |-> \A i \in 1 .. Len(transactions) : transactions[i].success,
   transactions |-> transactions]

\* the exchange of a cancellation: cancelOrders passes isNegRisk false,
\* cancelNegRiskOrders true
cancelExchange(op) ==
  IF op = "cancelNegRiskOrders" THEN "NEG_RISK_CTF_EXCHANGE" ELSE "CTF_EXCHANGE"

\* options?.withValidation ?? true
withValidation(args) == IF args.withValidation = <<>> THEN TRUE ELSE args.withValidation[1]

\* validateTokenIds: one validateTokenId per token id, on the multicall
\* contract of the exchange
validations(exchange, tokenIds) ==
  [i \in 1 .. Len(tokenIds) |->
     [fn |-> "validateTokenId", on |-> exchange, about |-> exchange,
      tokenIds |-> <<tokenIds[i]>>, via |-> "multicall"]]

\* C30 mutant: one fulfilled validation is enough
validateTokenIds_some(args, exchange, reachable) ==
  /\ reachable
  /\ \E i \in 1 .. Len(args.orders) : args.orders[i] \in args.registry[exchange]

\* Promise.allSettled, every result fulfilled: the exchange rejects a token
\* id it has not registered, and an unreachable provider rejects them all
validateTokenIds(args, exchange, reachable) ==
  /\ reachable
  /\ \A i \in 1 .. Len(args.orders) : args.orders[i] \in args.registry[exchange]

\* the cancelOrders transaction of either exchange
cancelTransaction(builder, exchange, orders) ==
  [fn |-> "cancelOrders", on |-> exchange, about |-> exchange,
   tokenIds |-> orders, via |-> transactionRoute(builder)]

\* --------------------------------------------------------- inputs of a call
Sides == {BUY, SELL}

\* quantities of one thousandth of a unit
Milli(n) == n * (precision \div 1000)

\* limit prices: a dense range and prices with more than 3 significant digits
LimitPrices ==
  (0 .. MaxPrice) \cup {381, 500, 880, 1000, 1234, 1239, 2001, 2109} \cup {2 * precision}

\* quantities: around zero and the minimum, and with more than 5 significant digits
LimitQuantities ==
  (-1 .. MaxQty) \cup {MIN_QUANTITY - 1, MIN_QUANTITY, MIN_QUANTITY + 1}
  \cup {18001, 99999, 100000, 100001, 123456, 180019, 999999} \cup {5 * precision}

\* the products of a call stay within TLC's integers
Fits(p, q) == IF p = 0 THEN TRUE ELSE q <= (2 ^ 30) \div p

\* depth levels <<price, quantity>>, in hundredths
LevelPrices == {0, 25, 50, 75, 88, 90}
LevelQuantities == {0, 200, 300, 400}
Levels == LevelPrices \X LevelQuantities

\* a cheap level deep enough for quantities of more than 5 significant digits
DeepLevel == <<3, 12345>>

SeqsUpTo(S, n) == UNION {[1 .. k -> S] : k \in 0 .. n}

\* the walked side: up to MaxLevels levels, the deep level last when present
Depths ==
  SeqsUpTo(Levels, MaxLevels)
  \cup {Append(d, DeepLevel) : d \in SeqsUpTo(Levels, MaxLevels - 1)}

\* the books of more levels than the other side is varied with
LongDepths == {d \in Depths : Len(d) > 2}

\* the side that is not walked
OtherDepths == {<<>>, <<<<50, 300>>, <<90, 200>>>>}

MarketQuantities ==
  {MIN_QUANTITY - 1, MIN_QUANTITY}
  \cup {Milli(n) : n \in {1500, 2000, 3000, 5000, 7000, 100001, 123456}}

Values ==
  {0, MIN_VALUE - 1}
  \cup {k * precision + Milli(r) : k \in 1 .. MaxValueUnits, r \in {0, 345}}

RetainValues ==
  (-MaxV .. MaxV) \cup {v * s : v \in {12345, 99999, 100000, 123456, 999999}, s \in {-1, 1}}

\* the clock of a call that does not depend on it
StartClock == 10 ^ 6 + 500

\* a builder as make constructs it
Builder(signer, predictAccount, chainId, generateSalt) ==
  [signer |-> signer, predictAccount |-> predictAccount, chainId |-> chainId,
   addresses |-> AddressesByChainId(chainId), generateSalt |-> generateSalt]

NoBuilder == Builder(<<>>, <<>>, BlastSepolia, <<>>)

\* the order input of the tests, with the fields under study left open
Data(signer, maker, salt, expiry) ==
  [side |-> BUY, signer |-> signer, maker |-> maker, taker |-> <<>>,
   tokenId |-> 123, makerAmount |-> 10 * precision, takerAmount |-> 5 * precision,
   feeRateBps |-> 0, nonce |-> <<>>, salt |-> salt, signatureType |-> <<>>,
   expiresAt |-> expiry]

NoData == Data(<<>>, <<>>, <<>>, <<>>)

NoArgs ==
  [op |-> "", side |-> BUY, pricePerShareWei |-> 0, quantityWei |-> 0,
   hasValueWei |-> FALSE, valueWei |-> 0, asks |-> <<>>, bids |-> <<>>,
   updateTimestampMs |-> StartClock,
   value |-> 0, digits |-> 0,
   builder |-> NoBuilder, strategy |-> "", data |-> NoData,
   order |-> <<>>, options |-> [isNegRisk |-> FALSE], typedData |-> <<>>,
   owner |-> ZeroAddress,
   orders |-> <<>>, withValidation |-> <<>>,
   registry |-> [CTF_EXCHANGE |-> {}, NEG_RISK_CTF_EXCHANGE |-> {}]]

LimitCall(s, p, q) ==
  [NoArgs EXCEPT !.op = "getLimitOrderAmounts", !.side = s,
                 !.pricePerShareWei = p, !.quantityWei = q]

\* BUY walks the asks, SELL the bids: d is the walked side, o the other one
MarketQuantityCall(s, q, d, o) ==
  [NoArgs EXCEPT !.op = "getMarketOrderAmounts", !.side = s, !.quantityWei = q,
                 !.asks = IF s = BUY THEN d ELSE o,
                 !.bids = IF s = BUY THEN o ELSE d]

\* budgets and books on which the floors of the by-value walk leave dust
DustValues == {Milli(1499), Milli(1500)}

DustDepths ==
  {<<<<75, 200>>, <<75, 200>>, <<75, 200>>>>, <<<<75, 200>>, <<88, 200>>, <<90, 200>>>>}

MarketValueCall(v, d) ==
  [NoArgs EXCEPT !.op = "getMarketOrderAmounts", !.side = BUY, !.hasValueWei = TRUE,
                 !.valueWei = v, !.asks = d]

\* processBook(depths, quantityWei): the depths travel as the asks of the call
ProcessBookCall(d, q) ==
  [NoArgs EXCEPT !.op = "processBook", !.asks = d, !.quantityWei = q]

\* targets of the walk: none, one wei, and quantities of the market calls
Targets == {0, 1} \cup {Milli(n) : n \in {1500, 5000, 123456}}

RetainCall(v, d) ==
  [NoArgs EXCEPT !.op = "retainSignificantDigits", !.value = v, !.digits = d]

\* ------------------------------------------------ inputs of the builder calls
AddressA == Addresses[2]
AddressB == Addresses[3]
PredictAccount == Addresses[4]

\* the age of a book when it is used: fresh, five minutes to the millisecond,
\* one millisecond more, and never stamped
BookAges == {0, FIVE_MINUTES_SECONDS * 1000, FIVE_MINUTES_SECONDS * 1000 + 1, StartClock}

\* books of the staleness cases: empty, one level, and one that fills a unit
AgedDepths == {<<>>, <<<<50, 300>>>>, <<<<25, 200>>, <<75, 400>>>>}

AgedCall(c, age) == [c EXCEPT !.updateTimestampMs = StartClock - age]

Clocks == {StartClock, StartClock + 499}

\* expiresAt: omitted, or before, at and after the clock of the call
Expiries(now) == {<<>>} \cup {<<now + d>> : d \in {-1, 0, 1, 2500}}

OptionalSigners == {<<>>, <<AddressA>>, <<AddressB>>}

\* options.generateSalt: omitted, or the generator of the tests
Generators == {<<>>, <<String(1234)>>}

Salts == {<<>>, <<0>>, <<7>>}

Builders ==
  {Builder(s, a, BlastSepolia, g) :
     s \in {<<>>, <<AddressA>>}, a \in {<<>>, <<PredictAccount>>}, g \in Generators}

BuildOrderCall(b, strategy, d) ==
  [NoArgs EXCEPT !.op = "buildOrder", !.builder = b, !.strategy = strategy, !.data = d]

OrderHashCall(b, strategy, d, o) ==
  [NoArgs EXCEPT !.op = "orderHash", !.builder = b, !.strategy = strategy, !.data = d,
                 !.options = o]

\* orders as buildOrder returns them, and one whose signer is no address
SampleOrders ==
  {buildOrder(b, "LIMIT", Data(<<AddressA>>, <<>>, <<7>>, <<>>), StartClock, StartClock, 0).value[1] :
     b \in {Builder(<<AddressA>>, a, BlastSepolia, <<>>) : a \in {<<>>, <<PredictAccount>>}}}
  \cup {buildOrder(NoBuilder, "LIMIT", Data(<<"0xsigner">>, <<>>, <<1234>>, <<>>),
                   StartClock, StartClock, 0).value[1]}

TypedDataBuilders ==
  {Builder(s, a, c, <<>>) :
     s \in {<<>>, <<AddressA>>}, a \in {<<>>, <<PredictAccount>>},
     c \in {BlastMainnet, BlastSepolia}}

BuildTypedDataCall(b, order, o) ==
  [NoArgs EXCEPT !.op = "buildTypedData", !.builder = b, !.order = <<order>>, !.options = o]

SampleTypedData ==
  {buildTypedData(b, order, [isNegRisk |-> n]) :
     b \in TypedDataBuilders, order \in SampleOrders, n \in BOOLEAN}

BuildTypedDataHashCall(b, t) ==
  [NoArgs EXCEPT !.op = "buildTypedDataHash", !.builder = b, !.typedData = <<t>>]

SignTypedDataOrderCall(b, t) ==
  [NoArgs EXCEPT !.op = "signTypedDataOrder", !.builder = b, !.typedData = <<t>>]

GenerateOrderSaltCall == [NoArgs EXCEPT !.op = "generateOrderSalt"]

\* make(chainId, signer, options) in a world where the validator has
\* registered owner for the predictAccount
MakeCall(b, owner) == [NoArgs EXCEPT !.op = "make", !.builder = b, !.owner = owner]

\* ---------------------------------------------------------------- actions
SetApprovalsCall(b) == [NoArgs EXCEPT !.op = "setApprovals", !.builder = b]

\* an order of a cancellation stands for its tokenId
TokenIds == 1 .. MaxTokenId

OrderLists == SeqsUpTo(TokenIds, MaxOrders)

\* the token ids each exchange has registered
Registries ==
  {[CTF_EXCHANGE |-> {1}, NEG_RISK_CTF_EXCHANGE |-> {2}],
   [CTF_EXCHANGE |-> {1, 2}, NEG_RISK_CTF_EXCHANGE |-> {}]}

CancelCall(op, b, orders, v, r) ==
  [NoArgs EXCEPT !.op = op, !.builder = b, !.orders = orders, !.withValidation = v,
                 !.registry = r]

Init ==
  /\ pc = "call"
  /\ result = NoResult
  /\ effects = <<>>
  /\ runs = <<>>
  /\ results = <<>>
  /\ chain = <<>>
  /\ \/ /\ clock = StartClock
        /\ \/ \E s \in Sides, p \in LimitPrices, q \in LimitQuantities :
                Fits(p, q) /\ call = LimitCall(s, p, q)
           \/ \E s \in Sides, q \in MarketQuantities, d \in Depths \ LongDepths,
                 o \in OtherDepths :
                call = MarketQuantityCall(s, q, d, o)
           \/ \E s \in Sides, q \in MarketQuantities, d \in LongDepths :
                call = MarketQuantityCall(s, q, d, <<>>)
           \/ \E v \in Values, d \in Depths :
                call = MarketValueCall(v, d)
           \/ \E v \in DustValues, d \in DustDepths :
                call = MarketValueCall(v, d)
           \/ \E v \in RetainValues, d \in 1 .. MaxDigits :
                call = RetainCall(v, d)
           \/ \E s \in Sides, q \in {MIN_QUANTITY - 1, precision}, d \in AgedDepths,
                 age \in BookAges :
                call = AgedCall(MarketQuantityCall(s, q, d, <<>>), age)
           \/ \E v \in {MIN_VALUE - 1, 2 * precision}, d \in AgedDepths, age \in BookAges :
                call = AgedCall(MarketValueCall(v, d), age)
           \/ \E b \in TypedDataBuilders, order \in SampleOrders, n \in BOOLEAN :
                call = BuildTypedDataCall(b, order, [isNegRisk |-> n])
           \/ \E b \in TypedDataBuilders, t \in SampleTypedData :
                \/ call = BuildTypedDataHashCall(b, t)
                \/ call = SignTypedDataOrderCall(b, t)
           \/ call = GenerateOrderSaltCall
           \/ \E d \in Depths, q \in Targets :
                call = ProcessBookCall(d, q)
           \/ \E b \in TypedDataBuilders \cup Builders,
                 owner \in {ZeroAddress, AddressA, AddressB} :
                call = MakeCall(b, owner)
           \/ \E b \in TypedDataBuilders :
                call = SetApprovalsCall(b)
           \/ \E b \in TypedDataBuilders, op \in {"cancelOrders", "cancelNegRiskOrders"},
                 orders \in OrderLists, v \in {<<>>, <<TRUE>>, <<FALSE>>}, r \in Registries :
                call = CancelCall(op, b, orders, v, r)
     \/ /\ clock \in Clocks
        /\ \E b \in Builders, strategy \in {"LIMIT", "MARKET"},
              signer \in OptionalSigners, maker \in OptionalSigners :
             \/ \E salt \in Salts, expiry \in Expiries(clock) :
                  call = BuildOrderCall(b, strategy, Data(signer, maker, salt, expiry))
             \/ \E expiry \in Expiries(clock), n \in BOOLEAN :
                  /\ b.generateSalt = <<>>
                  /\ call = OrderHashCall(b, strategy, Data(signer, maker, <<7>>, expiry),
                                          [isNegRisk |-> n])

GetLimitOrderAmounts ==
  /\ pc = "call"
  /\ call.op = "getLimitOrderAmounts"
  /\ result' = getLimitOrderAmounts(call)
  /\ pc' = "done"
  /\ UNCHANGED <<call, clock, effects, runs, results, chain>>

\* the book is the one of the call; the clock is read once
GetMarketOrderAmounts ==
  LET book == [asks |-> call.asks, bids |-> call.bids,
               updateTimestampMs |-> call.updateTimestampMs]
  IN /\ pc = "call"
     /\ call.op = "getMarketOrderAmounts"
     /\ result' = getMarketOrderAmounts(call, book)
     /\ effects' = staleWarnings(call, book)
     /\ pc' = "done"
     /\ UNCHANGED <<call, clock, runs, results, chain>>

ProcessBook ==
  /\ pc = "call"
  /\ call.op = "processBook"
  /\ result' = Return(processBook(call.asks, call.quantityWei))
  /\ pc' = "done"
  /\ UNCHANGED <<call, clock, effects, runs, results, chain>>

RetainSignificantDigits ==
  /\ pc = "call"
  /\ call.op = "retainSignificantDigits"
  /\ result' = Return(retainSignificantDigits(call.value, call.digits))
  /\ pc' = "done"
  /\ UNCHANGED <<call, clock, effects, runs, results, chain>>

\* the draws of Math.random() a call can make: none unless it asks the
\* default generator for a salt
Draws(b, d) ==
  IF d.salt = <<>> /\ b.generateSalt = <<>> THEN 0 .. RandomSteps - 1 ELSE {0}

GenerateOrderSalt ==
  /\ pc = "call"
  /\ call.op = "generateOrderSalt"
  /\ \E random \in 0 .. RandomSteps - 1 : result' = Return(generateOrderSalt(random))
  /\ pc' = "done"
  /\ UNCHANGED <<call, clock, effects, runs, results, chain>>

\* make up to its answer or, with a signer and a predictAccount, up to the
\* lookup it waits for
Make ==
  /\ pc = "call"
  /\ call.op = "make"
  /\ IF makeLooksUp(call.builder)
     THEN /\ effects' = Append(effects, OWNER_LOOKUP)
          /\ pc' = "lookup"
          /\ UNCHANGED result
     ELSE /\ result' = Return(call.builder)
          /\ pc' = "done"
          /\ UNCHANGED effects
  /\ UNCHANGED <<call, clock, runs, results, chain>>

\* the validator answers and the continuation of make runs
MakeResolve ==
  /\ pc = "lookup"
  /\ result' = makeResolve(call.builder, call.owner)
  /\ pc' = "done"
  /\ UNCHANGED <<call, clock, effects, runs, results, chain>>

\* setApprovals starts with an empty results array
SetApprovals ==
  /\ pc = "call"
  /\ call.op = "setApprovals"
  /\ results' = <<>>
  /\ pc' = "approval"
  /\ UNCHANGED <<call, result, clock, effects, runs, chain>>

\* the loop calls the next approval: getApprovalOps throws without
\* contracts, else the approval awaits its read
Approval ==
  /\ pc = "approval"
  /\ Len(results) < Len(approvals)
  /\ IF ~contractsDefined(call.builder)
     THEN /\ result' = Throw("MissingSignerError")
          /\ pc' = "done"
          /\ UNCHANGED chain
     ELSE /\ chain' = Append(chain, approvalRead(approvals[Len(results) + 1]))
          /\ pc' = "read"
          /\ UNCHANGED result
  /\ UNCHANGED <<call, clock, effects, runs, results>>

\* the read settles: the approval is in place and the step returns
\* { success: true }, or it is missing and the step hands its transaction to
\* handleTransaction, or the read rejects and setApprovals rejects with it
ApprovalRead ==
  /\ pc = "read"
  /\ \E answer \in {"granted", "missing", "rejected"} :
       \/ /\ answer = "granted"
          /\ results' = Append(results, TransactionResult("none"))
          /\ pc' = "approval"
          /\ UNCHANGED <<result, chain>>
       \/ /\ answer = "missing"
          /\ chain' = Append(chain, approvalTransaction(call.builder, approvals[Len(results) + 1]))
          /\ pc' = "transaction"
          /\ UNCHANGED <<result, results>>
       \/ /\ answer = "rejected"
          /\ result' = Throw("ProviderError")
          /\ pc' = "done"
          /\ UNCHANGED <<results, chain>>
  /\ UNCHANGED <<call, clock, effects, runs>>

\* the loop is over
SetApprovalsReturn ==
  /\ pc = "approval"
  /\ Len(results) = Len(approvals)
  /\ result' = Return(setApprovalsResult(results))
  /\ pc' = "done"
  /\ UNCHANGED <<call, clock, effects, runs, results, chain>>

\* cancelOrders and cancelNegRiskOrders, up to their first await
CancelOrders ==
  /\ pc = "call"
  /\ call.op \in {"cancelOrders", "cancelNegRiskOrders"}
  /\ IF call.orders = <<>>
     THEN /\ result' = Return(TransactionResult("none"))
          /\ pc' = "done"
          /\ UNCHANGED chain
     ELSE IF ~contractsDefined(call.builder)
     THEN /\ result' = Throw("MissingSignerError")
          /\ pc' = "done"
          /\ UNCHANGED chain
     ELSE IF withValidation(call)
     THEN /\ chain' = chain \o validations(cancelExchange(call.op), call.orders)
          /\ pc' = "validate"
          /\ UNCHANGED result
     ELSE /\ chain' = Append(chain, cancelTransaction(call.builder, cancelExchange(call.op),
                                                      call.orders))
          /\ pc' = "transaction"
          /\ UNCHANGED result
  /\ UNCHANGED <<call, clock, effects, runs, results>>

\* the validations have settled
CancelValidated ==
  /\ pc = "validate"
  /\ \E reachable \in BOOLEAN :
       IF validateTokenIds(call, cancelExchange(call.op), reachable)
       THEN /\ chain' = Append(chain, cancelTransaction(call.builder, cancelExchange(call.op),
                                                        call.orders))
            /\ pc' = "transaction"
            /\ UNCHANGED result
       ELSE /\ result' = Throw("InvalidNegRiskConfig")
            /\ pc' = "done"
            /\ UNCHANGED chain
  /\ UNCHANGED <<call, clock, effects, runs, results>>

\* handleTransaction settles: its result is the step's result in
\* setApprovals, and what a cancellation returns
HandleTransaction ==
  /\ pc = "transaction"
  /\ \E outcome \in TransactionOutcomes :
       IF call.op = "setApprovals"
       THEN /\ results' = Append(results, TransactionResult(outcome))
            /\ pc' = "approval"
            /\ UNCHANGED result
       ELSE /\ result' = Return(TransactionResult(outcome))
            /\ pc' = "done"
            /\ UNCHANGED results
  /\ UNCHANGED <<call, clock, effects, runs, chain>>

\* time can pass between the two reads of the clock
BuildOrder ==
  /\ pc = "call"
  /\ call.op = "buildOrder"
  /\ \E advance \in 0 .. MaxClockAdvance, random \in Draws(call.builder, call.data) :
       /\ result' = buildOrder(call.builder, call.strategy, call.data,
                               clock, clock + advance, random)
       /\ clock' = clock + advance
  /\ effects' = buildOrderWarnings(call.builder, call.strategy, call.data)
  /\ pc' = "done"
  /\ UNCHANGED <<call, runs, results, chain>>

BuildTypedData ==
  /\ pc = "call"
  /\ call.op = "buildTypedData"
  /\ result' = Return(buildTypedData(call.builder, call.order[1], call.options))
  /\ pc' = "done"
  /\ UNCHANGED <<call, clock, effects, runs, results, chain>>

BuildTypedDataHash ==
  /\ pc = "call"
  /\ call.op = "buildTypedDataHash"
  /\ result' = buildTypedDataHash(call.typedData[1])
  /\ pc' = "done"
  /\ UNCHANGED <<call, clock, effects, runs, results, chain>>

\* the collaborator signs or rejects
SignTypedDataOrder ==
  /\ pc = "call"
  /\ call.op = "signTypedDataOrder"
  /\ \E signed \in BOOLEAN :
       result' = signTypedDataOrder(call.builder, call.typedData[1], signed)
  /\ effects' = signTypedDataOrderCalls(call.builder, call.typedData[1])
  /\ pc' = "done"
  /\ UNCHANGED <<call, clock, runs, results, chain>>

\* one run of the round trip, recorded with the clock it started at
OrderHash ==
  /\ pc = "call"
  /\ call.op = "orderHash"
  /\ \E advance \in 0 .. MaxClockAdvance :
       /\ result' = orderHash(call.builder, call.strategy, call.data, call.options,
                              clock, clock + advance, 0)
       /\ clock' = clock + advance
  /\ runs' = Append(runs, [clock |-> clock, result |-> result'])
  /\ effects' = effects \o buildOrderWarnings(call.builder, call.strategy, call.data)
  /\ pc' = "done"
  /\ UNCHANGED <<call, results, chain>>

\* the same round trip is made a second time, at once or later
RunAgain ==
  /\ pc = "done"
  /\ call.op = "orderHash"
  /\ Len(runs) = 1
  /\ \E wait \in {0, 1, 600, 3000} : clock' = clock + wait
  /\ result' = NoResult
  /\ pc' = "call"
  /\ UNCHANGED <<call, effects, runs, results, chain>>

Next ==
  \/ GetLimitOrderAmounts
  \/ GetMarketOrderAmounts
  \/ ProcessBook
  \/ RetainSignificantDigits
  \/ GenerateOrderSalt
  \/ Make
  \/ MakeResolve
  \/ SetApprovals
  \/ Approval
  \/ ApprovalRead
  \/ SetApprovalsReturn
  \/ CancelOrders
  \/ CancelValidated
  \/ HandleTransaction
  \/ BuildOrder
  \/ BuildTypedData
  \/ BuildTypedDataHash
  \/ SignTypedDataOrder
  \/ OrderHash
  \/ RunAgain

Spec == Init /\ [][Next]_vars

TypeOK ==
  /\ pc \in {"call", "lookup", "approval", "read", "validate", "transaction", "done"}
  /\ result.error \in {"", "InvalidQuantityError", "InvalidExpirationError", "InvalidSignerError",
                       "MakerSignerMismatchError", "TypeError", "MissingSignerError",
                       "FailedOrderSignError", "FailedTypedDataEncoderError",
                       "InvalidNegRiskConfig", "ProviderError"}
  /\ Len(result.value) <= 1
  /\ pc = "call" => result = NoResult
  /\ Len(runs) <= 2
  /\ Len(results) <= Len(approvals)

\* ----------------------------------------------------------------- claims
Done(op) == pc = "done" /\ call.op = op

Returned == result.error = "" /\ Len(result.value) = 1

Threw(e) == result.error = e /\ result.value = <<>>

DoneLimit == Done("getLimitOrderAmounts")

DoneMarketByQuantity == Done("getMarketOrderAmounts") /\ ~(call.side = BUY /\ call.hasValueWei)

DoneMarketByValue == Done("getMarketOrderAmounts") /\ call.side = BUY /\ call.hasValueWei

Ceil(a, b) == (a + b - 1) \div b

C3_LimitSellSwapsBuy ==
  (DoneLimit /\ call.side = SELL /\ call.quantityWei >= MIN_QUANTITY) =>
    LET buy == getLimitOrderAmounts([call EXCEPT !.side = BUY])
    IN /\ Returned
       /\ buy.error = ""
       /\ result.value[1].pricePerShare = buy.value[1].pricePerShare
       /\ result.value[1].makerAmount = buy.value[1].takerAmount
       /\ result.value[1].takerAmount = buy.value[1].makerAmount

C3_Witness ==
  /\ DoneLimit
  /\ call.side = SELL
  /\ call.pricePerShareWei = 1239
  /\ call.quantityWei = 100001
  /\ Returned
  /\ result.value[1].makerAmount = 100000
  /\ result.value[1].takerAmount = (1230 * 100000) \div precision

\* C4: when price * quantity is not a multiple of the precision, a LIMIT
\* call computes the collateral (makerAmount of a BUY, takerAmount of a SELL)
\* from the inputs as given, rounded up, and returns the input quantity as the
\* share amount.
C4_LimitCollateralRoundedUp ==
  (DoneLimit /\ call.quantityWei >= MIN_QUANTITY
     /\ (call.pricePerShareWei * call.quantityWei) % precision # 0) =>
    /\ Returned
    /\ LET collateral == IF call.side = BUY THEN result.value[1].makerAmount
                         ELSE result.value[1].takerAmount
           shares == IF call.side = BUY THEN result.value[1].takerAmount
                     ELSE result.value[1].makerAmount
       IN /\ collateral = Ceil(call.pricePerShareWei * call.quantityWei, precision)
          /\ shares = call.quantityWei

\* the walk of the by-quantity path for the call's side and quantity
WalkedSide == IF call.side = BUY THEN call.asks ELSE call.bids

\* C5: a MARKET call by quantity walks the asks (BUY) or bids (SELL) for the
\* quantity truncated to 5 significant digits; with F, C, L the filled
\* quantity, total cost and last price of the walk, pricePerShare is
\* floor(C * precision / F), BUY returns floor(L * F / precision) and F, SELL
\* returns F and floor(L * F / precision).  BUY 5 against asks (0.5, 3),
\* (0.88, 4) gives 0.652, 4.4 and 5; SELL 5 against bids (0.5, 3), (0.9, 2)
\* gives 0.66, 5 and 4.5.
C5_MarketByQuantityAmounts ==
  /\ (DoneMarketByQuantity /\ retainSignificantDigits(call.quantityWei, 5) >= MIN_QUANTITY) =>
       LET walked == processBook(WalkedSide, retainSignificantDigits(call.quantityWei, 5))
           F == walked.quantityWei
           C == walked.priceWei
           L == walked.lastPriceWei
       IN /\ Returned
          /\ F > 0 => result.value[1].pricePerShare = (C * precision) \div F
          /\ call.side = BUY =>
               /\ result.value[1].makerAmount = (L * F) \div precision
               /\ result.value[1].takerAmount = F
          /\ call.side = SELL =>
               /\ result.value[1].makerAmount = F
               /\ result.value[1].takerAmount = (L * F) \div precision
  /\ (DoneMarketByQuantity /\ call.side = BUY /\ call.quantityWei = 5 * precision
        /\ call.asks = <<<<50, 300>>, <<88, 400>>>>) =>
       /\ Returned
       /\ result.value[1].pricePerShare = Milli(652)
       /\ result.value[1].makerAmount = Milli(4400)
       /\ result.value[1].takerAmount = 5 * precision
  /\ (DoneMarketByQuantity /\ call.side = SELL /\ call.quantityWei = 5 * precision
        /\ call.bids = <<<<50, 300>>, <<90, 200>>>>) =>
       /\ Returned
       /\ result.value[1].pricePerShare = Milli(660)
       /\ result.value[1].makerAmount = 5 * precision
       /\ result.value[1].takerAmount = Milli(4500)

C5_Witness ==
  /\ DoneMarketByQuantity
  /\ call.side = BUY
  /\ call.quantityWei = 5 * precision
  /\ call.asks = <<<<50, 300>>, <<88, 400>>>>
  /\ Returned
  /\ result.value[1].makerAmount = Milli(4400)

\* C6: a MARKET call by quantity of at least the minimum whose walk fills
\* nothing returns pricePerShare 0, makerAmount 0 and takerAmount 0 and
\* raises no error.
C6_NoFillReturnsZero ==
  (DoneMarketByQuantity /\ call.quantityWei >= MIN_QUANTITY
     /\ processBook(WalkedSide, retainSignificantDigits(call.quantityWei, 5)).quantityWei = 0) =>
    /\ Returned
    /\ result.value[1].pricePerShare = 0
    /\ result.value[1].makerAmount = 0
    /\ result.value[1].takerAmount = 0

C6_Witness ==
  /\ DoneMarketByQuantity
  /\ call.side = BUY
  /\ call.asks = <<>>
  /\ call.bids # <<>>
  /\ call.quantityWei >= MIN_QUANTITY
  /\ Returned
  /\ result.value[1].pricePerShare = 0

\* C7: a MARKET BUY by value below one whole unit (1e18 at precision 1e18)
\* raises InvalidQuantity and returns no amounts, whatever the book.
C7_ValueBelowMinimum ==
  (DoneMarketByValue /\ call.valueWei < MIN_VALUE) => Threw("InvalidQuantityError")

C7_Witness ==
  /\ DoneMarketByValue
  /\ call.valueWei = MIN_VALUE - 1
  /\ Len(call.asks) = MaxLevels
  /\ Threw("InvalidQuantityError")

DoneRetain == Done("retainSignificantDigits")

Sign(n) == IF n < 0 THEN -1 ELSE IF n > 0 THEN 1 ELSE 0

\* C9: for digits >= 1 the result of retainSignificantDigits has the sign of
\* the value, is zero exactly when the value is zero, and is no larger in
\* magnitude than the value.
C9_RetainSignAndMagnitude ==
  (DoneRetain /\ call.digits >= 1) =>
    /\ Returned
    /\ Sign(result.value[1]) = Sign(call.value)
    /\ (result.value[1] = 0) <=> (call.value = 0)
    /\ Abs(result.value[1]) <= Abs(call.value)

C9_Witness ==
  /\ DoneRetain
  /\ call.value = -123456
  /\ call.digits = 1
  /\ Returned
  /\ result.value[1] = -100000

\* C10: retainSignificantDigits truncates toward zero: with n the number of
\* decimal digits of |v|, the result is sign(v) * (|v| - |v| mod 10^(n-d))
\* when n > d and v itself when n <= d; (123456, 3) gives 123000, (12, 3)
\* gives 12, (-123456, 3) gives -123000 and 0 gives 0.
C10_RetainTruncates ==
  /\ DoneRetain =>
       /\ Returned
       /\ LET a == Abs(call.value)
              n == NumDigits(a)
          IN IF n > call.digits
             THEN result.value[1] = Sign(call.value) * (a - (a % (10 ^ (n - call.digits))))
             ELSE result.value[1] = call.value
  /\ (DoneRetain /\ call.digits = 3) =>
       /\ call.value = 123456 => result.value[1] = 123000
       /\ call.value = 12 => result.value[1] = 12
       /\ call.value = -123456 => result.value[1] = -123000
       /\ call.value = 0 => result.value[1] = 0

C10_Witness ==
  /\ DoneRetain
  /\ call.value = 123456
  /\ call.digits = 3
  /\ Returned
  /\ result.value[1] = 123000

\* ---------------------------------------------------------- the staleness
DoneMarket == Done("getMarketOrderAmounts")

BookAt(t) == [asks |-> call.asks, bids |-> call.bids, updateTimestampMs |-> t]

\* the same book with the other freshness: stamped now if the call's book is
\* older than five minutes, stamped a millisecond more than that ago if not
OtherBook ==
  IF clock - call.updateTimestampMs > 300000 THEN BookAt(clock)
  ELSE BookAt(clock - 300001)

\* C11: staleness is advisory only.  getMarketOrderAmounts raises nothing
\* but InvalidQuantityError, which it raises on the fresh book too, and on
\* two books that differ only in updateTimestampMs, one fresh and one older
\* than five minutes, it returns the same amounts or raises the same error.
C11_StalenessAdvisoryOnly ==
  DoneMarket =>
    /\ result.error \in {"", "InvalidQuantityError"}
    /\ getMarketOrderAmounts(call, OtherBook) = result

C11_Witness ==
  /\ DoneMarket
  /\ clock - call.updateTimestampMs > 300000
  /\ Returned
  /\ result.value[1].takerAmount > 0
  /\ STALE_BOOK_WARNING \in {effects[i] : i \in DOMAIN effects}

\* ------------------------------------------------------------- buildOrder
DoneBuildOrder == Done("buildOrder")

\* the call is a buildOrder of the strategy, about to be made
CallsBuildOrder(strategy) ==
  pc = "call" /\ call.op = "buildOrder" /\ call.strategy = strategy

\* C12: buildOrder("LIMIT", input) raises InvalidExpirationError exactly when
\* expiresAt is supplied and not strictly later than the clock read by the
\* check; an order it returns expires at floor(expiresAt / 1000) seconds, at
\* the fallback date's second when expiresAt is omitted.
C12_LimitExpiration ==
  DoneBuildOrder /\ call.strategy = "LIMIT" =>
    LET supplied == call.data.expiresAt
    IN /\ Threw("InvalidExpirationError") <=> (supplied # <<>> /\ supplied[1] <= clock)
       /\ Returned =>
            result.value[1].expiration =
              String(IF supplied = <<>> THEN fallbackExpiresAt \div 1000
                     ELSE supplied[1] \div 1000)

C12_Witness ==
  /\ DoneBuildOrder
  /\ call.strategy = "LIMIT"
  /\ call.data.expiresAt = <<clock>>
  /\ Threw("InvalidExpirationError")

\* C13: buildOrder("MARKET", input) never raises InvalidExpirationError,
\* whether expiresAt is omitted, future or past; an order it returns expires
\* at floor(now / 1000 + 300) seconds for the clock now read at assembly,
\* whatever expiresAt says, which lies between now and now + 5 minutes.
C13_MarketExpiration ==
  [][CallsBuildOrder("MARKET") =>
       /\ result'.error # "InvalidExpirationError"
       /\ result'.error = "" =>
            LET seconds == uint256(result'.value[1].expiration)
            IN /\ result'.value[1].expiration = String(clock \div 1000 + 300)
               /\ clock <= seconds * 1000
               /\ seconds * 1000 <= clock + 5 * 60 * 1000]_vars

C13_Witness ==
  /\ DoneBuildOrder
  /\ call.strategy = "MARKET"
  /\ call.data.expiresAt # <<>>
  /\ call.data.expiresAt[1] < clock
  /\ Returned
  /\ IGNORED_EXPIRES_AT_WARNING \in {effects[i] : i \in DOMAIN effects}

\* ----------------------------------------------------------- the identity
\* input.signer, or the address of the builder's signer when it has one
Resolved == IF call.data.signer # <<>> THEN call.data.signer ELSE call.builder.signer

ExplicitMakerDiffers ==
  Resolved # <<>> /\ call.data.maker # <<>> /\ call.data.maker # Resolved

\* a LIMIT call whose expiresAt has been reached when the check reads the clock
Expired ==
  /\ call.strategy = "LIMIT"
  /\ call.data.expiresAt # <<>>
  /\ call.data.expiresAt[1] <= clock

\* without a predictAccount the order carries the resolved signer, as its
\* maker too when no maker is given
ResolvedIdentity ==
  Returned /\ call.builder.predictAccount = <<>> =>
    /\ result.value[1].signer = Resolved[1]
    /\ call.data.maker = <<>> => result.value[1].maker = Resolved[1]

\* C14 as stated: the signer is input.signer or the builder's address, the
\* maker defaults to it, and whenever an explicit maker differs from that
\* signer buildOrder fails with MakerSignerMismatchError.
C14_MakerSignerMismatchAlways ==
  DoneBuildOrder =>
    /\ ResolvedIdentity
    /\ ExplicitMakerDiffers => Threw("MakerSignerMismatchError")

\* C14 amended: the signer is input.signer or the builder's address and the
\* maker defaults to it; whenever an explicit maker differs from that signer
\* buildOrder returns no order: it fails with MakerSignerMismatchError, or
\* with InvalidExpirationError when the LIMIT expiry check has failed first.
C14_MakerSignerMismatch ==
  DoneBuildOrder =>
    /\ ResolvedIdentity
    /\ ExplicitMakerDiffers =>
         IF Expired THEN Threw("InvalidExpirationError")
         ELSE Threw("MakerSignerMismatchError")

C14_Witness ==
  /\ DoneBuildOrder
  /\ call.data.signer = <<>>
  /\ call.builder.signer = <<AddressA>>
  /\ call.data.maker = <<AddressB>>
  /\ Threw("MakerSignerMismatchError")

\* C15: every order buildOrder returns has maker = signer: both are the
\* resolved signer without a predictAccount, both the predictAccount with one.
C15_MakerEqualsSigner ==
  DoneBuildOrder /\ Returned =>
    LET order == result.value[1]
        identity == IF call.builder.predictAccount = <<>> THEN Resolved[1]
                    ELSE call.builder.predictAccount[1]
    IN order.maker = order.signer /\ order.maker = identity

C15_Witness ==
  /\ DoneBuildOrder
  /\ Returned
  /\ call.builder.predictAccount = <<PredictAccount>>
  /\ call.data.signer = <<AddressA>>
  /\ call.data.maker = <<AddressA>>
  /\ result.value[1].maker = PredictAccount

\* C16: with a predictAccount buildOrder returns an order of the
\* predictAccount for every input.maker and input.signer, conflicting ones
\* included, and the conflict is only warned about.  (Calls that fail for
\* the expiry, or for a signer that cannot be resolved, are left aside.)
C16_PredictAccountIgnoresIdentity ==
  DoneBuildOrder /\ call.builder.predictAccount # <<>> /\ ~Expired /\ Resolved # <<>> =>
    /\ Returned
    /\ result.value[1].maker = call.builder.predictAccount[1]
    /\ result.value[1].signer = call.builder.predictAccount[1]

\* ---------------------------------------------------------------- the salt
SaltOmitted == call.data.salt = <<>>

\* a decimal string of an integer from lo to hi
IsSaltWithin(salt, lo, hi) == \E n \in lo .. hi : salt = String(n)

\* C17 as stated: an omitted salt comes from the injected generator, an
\* explicit one wins, and generateOrderSalt only produces 0 <= s < 2^31.
C17_SaltBelowMax ==
  /\ Done("generateOrderSalt") => IsSaltWithin(result.value[1], 0, MAX_SALT - 1)
  /\ DoneBuildOrder /\ Returned =>
       LET salt == result.value[1].salt
       IN IF ~SaltOmitted THEN uint256(salt) = call.data.salt[1]
          ELSE IF call.builder.generateSalt # <<>> THEN salt = call.builder.generateSalt[1]
          ELSE IsSaltWithin(salt, 0, MAX_SALT - 1)

\* C17 amended: an omitted salt comes from the injected generator, an
\* explicit one wins, and generateOrderSalt only produces 0 <= s <= 2^31.
C17_SaltUpToMax ==
  /\ Done("generateOrderSalt") => IsSaltWithin(result.value[1], 0, MAX_SALT)
  /\ DoneBuildOrder /\ Returned =>
       LET salt == result.value[1].salt
       IN IF ~SaltOmitted THEN uint256(salt) = call.data.salt[1]
          ELSE IF call.builder.generateSalt # <<>> THEN salt = call.builder.generateSalt[1]
          ELSE IsSaltWithin(salt, 0, MAX_SALT)

C17_Witness ==
  /\ DoneBuildOrder
  /\ Returned
  /\ SaltOmitted
  /\ call.builder.generateSalt = <<>>
  /\ result.value[1].salt = String(MAX_SALT)

\* ------------------------------------------------------------ the typed data
OrderFields ==
  {"salt", "maker", "signer", "taker", "tokenId", "makerAmount", "takerAmount",
   "expiration", "nonce", "feeRateBps", "side", "signatureType"}

\* C18: buildTypedData(order, {isNegRisk}) returns typed data whose domain
\* names the NEG_RISK_CTF_EXCHANGE of the builder's chain when isNegRisk and
\* its CTF_EXCHANGE otherwise, with the builder's chain id, and whose message
\* has exactly the order's fields with the order's values; the order passed
\* in is the same after the call.
C18_TypedDataOfOrder ==
  [][pc = "call" /\ call.op = "buildTypedData" =>
       LET order == call.order[1]
           exchanges == AddressesByChainId(call.builder.chainId)
           typedData == result'.value[1]
       IN /\ result'.error = "" /\ Len(result'.value) = 1
          /\ typedData.domain.verifyingContract =
               (IF call.options.isNegRisk THEN exchanges.NEG_RISK_CTF_EXCHANGE
                ELSE exchanges.CTF_EXCHANGE)
          /\ typedData.domain.chainId = call.builder.chainId
          /\ DOMAIN typedData.message = OrderFields
          /\ DOMAIN order = OrderFields
          /\ \A f \in OrderFields : typedData.message[f] = order[f]
          /\ call' = call]_vars

C18_Witness ==
  /\ Done("buildTypedData")
  /\ call.options.isNegRisk
  /\ call.builder.chainId = BlastMainnet
  /\ Returned
  /\ result.value[1].domain.verifyingContract = "0x6a3796C21e733a3016Bc0bA41edF763016247e72"
  /\ result.value[1].message.salt = String(7)

\* ------------------------------------------------------------ the round trip
TwoRuns == Done("orderHash") /\ Len(runs) = 2

\* C19 as stated: two runs of the round trip with the same strategy, input
\* (salt included) and options give the same hash, whenever they are made.
C19_SameHashWhenever ==
  TwoRuns => runs[1].result = runs[2].result

\* the clock second a run started in
Second(run) == run.clock \div 1000

RanOutAt(run) == run.result.error = "InvalidExpirationError"

\* C19 amended: two runs with the same strategy, input (salt included) and
\* options give the same hash, or the same error, for LIMIT when expiresAt
\* has been reached at both runs or at neither, and for MARKET when both
\* runs start within the same second of the clock.
C19_SameHashSameSecond ==
  TwoRuns =>
    /\ call.strategy = "LIMIT" /\ (RanOutAt(runs[1]) <=> RanOutAt(runs[2]))
         => runs[1].result = runs[2].result
    /\ call.strategy = "MARKET" /\ Second(runs[1]) = Second(runs[2])
         => runs[1].result = runs[2].result

C19_Witness ==
  /\ TwoRuns
  /\ call.strategy = "MARKET"
  /\ runs[1].clock < runs[2].clock
  /\ Second(runs[1]) = Second(runs[2])
  /\ runs[1].result.error = ""
  /\ Len(runs[1].result.value) = 1
  /\ runs[1].result = runs[2].result

\* ------------------------------------------------------- the missing signer
NoSigner == call.builder.signer = <<>>

\* C20: on a builder made without a signer, signTypedDataOrder fails with
\* MissingSignerError without calling the signer, buildOrder without
\* input.signer fails with MissingSignerError, and buildOrder with an
\* explicit signer, buildTypedData and buildTypedDataHash succeed.  (Calls
\* that fail for the expiry, the maker or the encoding are left aside.)
C20_MissingSigner ==
  NoSigner =>
    /\ Done("signTypedDataOrder") => Threw("MissingSignerError") /\ effects = <<>>
    /\ DoneBuildOrder /\ ~Expired =>
         IF call.data.signer = <<>> THEN Threw("MissingSignerError")
         ELSE Returned \/ Threw("MakerSignerMismatchError")
    /\ Done("buildTypedData") => Returned
    /\ Done("buildTypedDataHash") /\ encodable(call.typedData[1]) => Returned

\* --------------------------------------------------------------------- make
MakeWithBoth == call.op = "make" /\ makeLooksUp(call.builder)

\* C21: make with a signer and a predictAccount looks the registered owner
\* up before any builder exists; if the owner is not the signer's address it
\* fails with InvalidSignerError and returns no builder; it returns the
\* builder only after the lookup, for an owner that is the signer's address.
C21_MakeChecksOwner ==
  MakeWithBoth =>
    /\ pc # "done" => result = NoResult
    /\ pc = "lookup" => effects = <<OWNER_LOOKUP>>
    /\ pc = "done" =>
         /\ effects = <<OWNER_LOOKUP>>
         /\ call.owner # call.builder.signer[1] => Threw("InvalidSignerError")
         /\ call.owner = call.builder.signer[1] =>
              Returned /\ result.value[1] = call.builder

C21_Witness ==
  /\ MakeWithBoth
  /\ pc = "done"
  /\ call.owner = AddressB
  /\ call.builder.signer = <<AddressA>>
  /\ Threw("InvalidSignerError")
  /\ effects = <<OWNER_LOOKUP>>

\* ------------------------------------------------- the two market paths
\* C22: whenever the by-value computation returns, it returns what the
\* by-quantity path returns on the same book for T shares, T being the
\* takerAmount of the by-value result: the same pricePerShare, makerAmount,
\* takerAmount and lastPrice.
C22_ByValueAgreesWithByQuantity ==
  DoneMarketByValue /\ Returned =>
    LET T == result.value[1].takerAmount
        byQuantity == getMarketOrderAmounts(
                        [side |-> BUY, hasValueWei |-> FALSE, quantityWei |-> T,
                         valueWei |-> 0],
                        BookAt(call.updateTimestampMs))
    IN /\ byQuantity.error = ""
       /\ byQuantity.value[1].pricePerShare = result.value[1].pricePerShare
       /\ byQuantity.value[1].makerAmount = result.value[1].makerAmount
       /\ byQuantity.value[1].takerAmount = T
       /\ byQuantity.value[1].lastPrice = result.value[1].lastPrice

\* the budget ends inside the second level
C22_Witness ==
  /\ DoneMarketByValue
  /\ Returned
  /\ call.valueWei = 2 * precision
  /\ call.asks = <<<<25, 200>>, <<75, 400>>>>
  /\ result.value[1].takerAmount = 4 * precision
  /\ result.value[1].makerAmount = 3 * precision

\* ------------------------------------------------------------ processBook
DoneProcessBook == Done("processBook")

RECURSIVE SumOfQuantities(_)
SumOfQuantities(depths) ==
  IF depths = <<>> THEN 0
  ELSE SumOfQuantities(Tail(depths)) + parseEther(Head(depths)[2])

Min(a, b) == IF a < b THEN a ELSE b

\* C23: for every sequence of levels and every target >= 0 processBook fills
\* min(target, sum of the level quantities), without an error when the book
\* is shallower than the target; empty depths give quantity, cost and last
\* price 0.
C23_FillIsMinOfTargetAndDepth ==
  DoneProcessBook =>
    /\ Returned
    /\ result.value[1].quantityWei = Min(call.quantityWei, SumOfQuantities(call.asks))
    /\ result.value[1].quantityWei <= call.quantityWei
    /\ call.asks = <<>> => result.value[1] = [quantityWei |-> 0, priceWei |-> 0, lastPriceWei |-> 0]

\* a book shallower than the target
C23_Witness ==
  /\ DoneProcessBook
  /\ Returned
  /\ Len(call.asks) = 2
  /\ SumOfQuantities(call.asks) > 0
  /\ SumOfQuantities(call.asks) < call.quantityWei
  /\ result.value[1].quantityWei = SumOfQuantities(call.asks)

\* what the first k levels fill of the target
FilledBy(k) == processBook(SubSeq(call.asks, 1, k), call.quantityWei).quantityWei

\* the levels that add a strictly positive quantity to the fill
Contributors == {i \in 1 .. Len(call.asks) : FilledBy(i) > FilledBy(i - 1)}

LastContributor == CHOOSE i \in Contributors : \A j \in Contributors : j <= i

\* C24: lastPrice is the price of the last level, in array order, that added
\* a strictly positive quantity to the fill (0 when there is none); levels
\* after the target has been reached, and levels that add no quantity,
\* change nothing of it.
C24_LastPriceOfLastContributor ==
  DoneProcessBook /\ Returned =>
    result.value[1].lastPriceWei =
      IF Contributors = {} THEN 0 ELSE parseEther(call.asks[LastContributor][1])

\* ------------------------------------------------------------- the bounds
\* the asks are sorted by price, ascending
AscendingAsks ==
  \A i \in 1 .. Len(call.asks) - 1 : call.asks[i][1] <= call.asks[i + 1][1]

\* C25: for a MARKET BUY by quantity on asks sorted ascending by price the
\* makerAmount is at least the cost of the walk, the sum over the touched
\* levels of floor(price * consumed / precision), and pricePerShare is at
\* most lastPrice.
C25_MakerAmountBoundsCost ==
  DoneMarketByQuantity /\ call.side = BUY /\ Returned /\ AscendingAsks =>
    LET totalCost == processBook(call.asks, retainSignificantDigits(call.quantityWei, 5)).priceWei
    IN /\ result.value[1].makerAmount >= totalCost
       /\ result.value[1].pricePerShare <= result.value[1].lastPrice

\* two levels of different prices are touched
C25_Witness ==
  /\ DoneMarketByQuantity
  /\ call.side = BUY
  /\ Returned
  /\ call.asks = <<<<25, 200>>, <<75, 400>>>>
  /\ call.quantityWei = 5 * precision
  /\ result.value[1].makerAmount > processBook(call.asks, call.quantityWei).priceWei
  /\ result.value[1].pricePerShare < result.value[1].lastPrice

\* what the by-value walk has spent after the first k asks
SpentBy(k) == valueWalk(SubSeq(call.asks, 1, k), call.valueWei).totalPrice

\* C26 as stated: for a MARKET BUY by value on asks sorted ascending by
\* price the running total of the by-value walk never exceeds valueWei, and
\* the cost of the by-quantity walk for the returned takerAmount is at most
\* valueWei.
C26_BudgetNeverOverspent ==
  DoneMarketByValue /\ AscendingAsks =>
    /\ \A k \in 0 .. Len(call.asks) : SpentBy(k) <= call.valueWei
    /\ Returned =>
         processBook(call.asks, result.value[1].takerAmount).priceWei <= call.valueWei

\* C26 amended: for a MARKET BUY by value on asks sorted ascending by price the
\* running total of the by-value walk never exceeds valueWei, and the cost
\* of the by-quantity walk for the returned takerAmount exceeds valueWei by
\* less than one wei per ask.
C26_OverspendIsDust ==
  DoneMarketByValue /\ AscendingAsks =>
    /\ \A k \in 0 .. Len(call.asks) : SpentBy(k) <= call.valueWei
    /\ Returned =>
         processBook(call.asks, result.value[1].takerAmount).priceWei
           < call.valueWei + Len(call.asks)

\* the shares the dust of three asks buys cost one wei more than the budget
C26_Witness ==
  /\ DoneMarketByValue
  /\ AscendingAsks
  /\ Returned
  /\ Len(call.asks) = 3
  /\ call.valueWei = Milli(1499)
  /\ SpentBy(3) < call.valueWei
  /\ result.value[1].makerAmount > call.valueWei
  /\ processBook(call.asks, result.value[1].takerAmount).priceWei = call.valueWei + 1

\* the shares the budget buys on the asks, truncated to 5 significant digits
SharesBought == retainSignificantDigits(valueWalk(call.asks, call.valueWei).numberOfShares, 5)

\* C27 as stated: a market call by value with a budget of at least the
\* minimum returns amounts on every book.
C27_RaisesOnlyBelowMinimumValue ==
  DoneMarketByValue /\ call.valueWei >= MIN_VALUE => Returned

\* C27 amended: a market call by value raises InvalidQuantity exactly when the budget
\* is below the minimum value or the shares it buys, truncated to 5
\* significant digits, are below the minimum quantity; otherwise it returns
\* amounts.
C27_RaisesBelowEitherMinimum ==
  DoneMarketByValue =>
    IF call.valueWei < MIN_VALUE \/ SharesBought < MIN_QUANTITY
    THEN Threw("InvalidQuantityError")
    ELSE Returned

\* a sufficient budget on an empty book
C27_Witness ==
  /\ DoneMarketByValue
  /\ call.valueWei >= MIN_VALUE
  /\ call.asks = <<>>
  /\ Threw("InvalidQuantityError")

\* the by-value walk ran: the budget passed its minimum
WalkedByValue == DoneMarketByValue /\ call.valueWei >= MIN_VALUE

\* the shares the by-value walk holds after the first k asks
SharesBy(k) == valueWalk(SubSeq(call.asks, 1, k), call.valueWei).numberOfShares

\* what the k-th ask adds to the shares, and the budget left before it
Contribution(k) == SharesBy(k) - SharesBy(k - 1)

RemainingBefore(k) == call.valueWei - SpentBy(k - 1)

\* the cost of the whole k-th tier fits the budget left
TierFits(k) ==
  BigDiv(parseEther(call.asks[k][1]) * parseEther(call.asks[k][2]), precision)
    <= RemainingBefore(k)

\* the k-th ask is consumed in part
Fractional(k) == RemainingBefore(k) > 0 /\ ~TierFits(k)

\* every ask adds its whole quantity when its cost fits the budget left,
\* floor(remaining * precision / price) shares when it does not, and nothing
\* once the budget is spent
ContributionRule ==
  \A k \in 1 .. Len(call.asks) :
    Contribution(k) =
      IF RemainingBefore(k) <= 0 THEN 0
      ELSE IF TierFits(k) THEN parseEther(call.asks[k][2])
      ELSE BigDiv(RemainingBefore(k) * precision, parseEther(call.asks[k][1]))

\* C28 as stated: the asks follow the contribution rule, and after an ask
\* consumed in part no later ask is consumed in part or adds any shares.
C28_SingleFractionalLevel ==
  WalkedByValue =>
    /\ ContributionRule
    /\ \A k \in 1 .. Len(call.asks) : Fractional(k) =>
         \A j \in k + 1 .. Len(call.asks) : ~Fractional(j) /\ Contribution(j) = 0

\* C28 amended: the asks follow the contribution rule, and an ask consumed in part
\* leaves less budget than one share-wei more of it would have cost: at
\* most (price + precision - 2) div precision; later asks are walked with
\* that remainder.
C28_FractionalLeavesDust ==
  WalkedByValue =>
    /\ ContributionRule
    /\ \A k \in 1 .. Len(call.asks) : Fractional(k) =>
         /\ RemainingBefore(k + 1) >= 0
         /\ RemainingBefore(k + 1)
              <= BigDiv(parseEther(call.asks[k][1]) + precision - 2, precision)

\* the first ask is consumed in part and leaves one wei, of which the
\* second ask gives one share-wei
C28_Witness ==
  /\ WalkedByValue
  /\ call.valueWei = precision
  /\ call.asks = <<<<75, 200>>, <<90, 200>>>>
  /\ Fractional(1)
  /\ RemainingBefore(2) = 1
  /\ Fractional(2)
  /\ Contribution(2) = 1

\* ------------------------------------------- approvals and cancellations
\* the five steps in the order claimed: the contract approved and the token
\* standard of the approval
StepsClaimed ==
  << <<"CTF_EXCHANGE", "ERC1155">>, <<"NEG_RISK_CTF_EXCHANGE", "ERC1155">>,
     <<"NEG_RISK_ADAPTER", "ERC1155">>, <<"CTF_EXCHANGE", "ERC20">>,
     <<"NEG_RISK_CTF_EXCHANGE", "ERC20">> >>

IsRead(e) == e.fn \in {"isApprovedForAll", "allowance"}

Standard(e) == IF e.fn \in {"isApprovedForAll", "setApprovalForAll"} THEN "ERC1155" ELSE "ERC20"

\* the contract calls of step k, in the order they were made
CallsOfStep(k) ==
  SelectSeq(chain, LAMBDA e : <<e.about, Standard(e)>> = StepsClaimed[k])

\* step k has transacted
Transacted(k) == Len(CallsOfStep(k)) = 2

\* the steps that have made a contract call
StepsBegun == {k \in 1 .. Len(StepsClaimed) : CallsOfStep(k) # <<>>}

\* C29: setApprovals makes the contract calls of its five steps in the order
\* CTF-exchange approval, neg-risk-exchange approval, neg-risk-adapter
\* approval, CTF-exchange allowance, neg-risk-exchange allowance; a step makes
\* its first call only when every earlier step has pushed its result; a step
\* whose transaction fails does not end the call; the value returned has one
\* entry per step in that order, and its success is true exactly when every
\* entry is successful.
C29_ApprovalsInOrder ==
  call.op = "setApprovals" =>
    /\ \A i \in 1 .. Len(chain) :
         \E k \in 1 .. Len(StepsClaimed) : <<chain[i].about, Standard(chain[i])>> = StepsClaimed[k]
    /\ \A i, j \in 1 .. Len(chain), k, l \in 1 .. Len(StepsClaimed) :
         /\ i < j
         /\ <<chain[i].about, Standard(chain[i])>> = StepsClaimed[k]
         /\ <<chain[j].about, Standard(chain[j])>> = StepsClaimed[l]
         => k <= l
    /\ \A k \in 1 .. Len(StepsClaimed) :
         /\ Len(CallsOfStep(k)) <= 2
         /\ Len(CallsOfStep(k)) >= 1 => IsRead(CallsOfStep(k)[1])
         /\ Transacted(k) => ~IsRead(CallsOfStep(k)[2])
    /\ StepsBegun \in {1 .. Len(results), 1 .. Len(results) + 1}
    /\ pc \in {"read", "transaction"} \/ Threw("ProviderError")
         <=> StepsBegun = 1 .. Len(results) + 1
    /\ \A k \in 1 .. Len(results) : Transacted(k) <=> results[k].outcome # "none"
    /\ pc = "done" =>
         \/ /\ Returned
            /\ Len(results) = Len(StepsClaimed)
            /\ result.value[1].transactions = results
            /\ result.value[1].success <=> \A k \in 1 .. Len(results) : results[k].success
         \/ Threw("MissingSignerError") /\ ~contractsDefined(call.builder) /\ chain = <<>>
         \/ Threw("ProviderError") /\ IsRead(chain[Len(chain)])

\* the second step's transaction reverts, the fourth throws, the steps after
\* them run and the fifth transacts with success
C29_Witness ==
  /\ Done("setApprovals")
  /\ Returned
  /\ result.value[1].success = FALSE
  /\ Len(result.value[1].transactions) = 5
  /\ result.value[1].transactions[1].outcome = "none"
  /\ result.value[1].transactions[2].outcome = "reverted"
  /\ result.value[1].transactions[4].outcome = "cause"
  /\ result.value[1].transactions[5].outcome = "receipt"
  /\ Len(chain) = 8

\* a cancellation of some orders, with validation
CancelValidating ==
  /\ call.op \in {"cancelOrders", "cancelNegRiskOrders"}
  /\ call.orders # <<>>
  /\ call.withValidation \in {<<>>, <<TRUE>>}

IsCancel(e) == e.fn = "cancelOrders"

\* the exchange the call is about
ExchangeClaimed == IF call.op = "cancelOrders" THEN "CTF_EXCHANGE" ELSE "NEG_RISK_CTF_EXCHANGE"

\* every token id of the orders is registered on that exchange
AllRegistered ==
  \A i \in 1 .. Len(call.orders) : call.orders[i] \in call.registry[ExchangeClaimed]

\* C30: a cancellation of some orders with validation, on a builder with a
\* signer, validates the token id of every order on the exchange of the call
\* before any transaction; when a token id fails validation the call raises
\* InvalidNegRiskConfig and no transaction is submitted. On every builder a
\* cancellation transaction is only submitted after all token ids validated, or
\* with validation disabled.
C30_ValidatesBeforeCancel ==
  /\ CancelValidating /\ contractsDefined(call.builder) =>
       /\ pc # "call" =>
            /\ Len(chain) >= Len(call.orders)
            /\ \A i \in 1 .. Len(call.orders) :
                 /\ chain[i].fn = "validateTokenId"
                 /\ chain[i].on = ExchangeClaimed
                 /\ chain[i].tokenIds = <<call.orders[i]>>
       /\ \A i \in 1 .. Len(chain) : IsCancel(chain[i]) =>
            /\ i = Len(call.orders) + 1
            /\ AllRegistered
            /\ chain[i].on = ExchangeClaimed
            /\ chain[i].tokenIds = call.orders
       /\ pc = "done" /\ ~AllRegistered =>
            /\ Threw("InvalidNegRiskConfig")
            /\ \A i \in 1 .. Len(chain) : ~IsCancel(chain[i])
       /\ pc = "done" /\ Threw("InvalidNegRiskConfig") =>
            \A i \in 1 .. Len(chain) : ~IsCancel(chain[i])
       /\ pc = "done" => Threw("InvalidNegRiskConfig") \/ Returned
  /\ call.op \in {"cancelOrders", "cancelNegRiskOrders"} =>
       \A i \in 1 .. Len(chain) : IsCancel(chain[i]) =>
         \/ call.withValidation = <<FALSE>> /\ i = 1
         \/ /\ call.withValidation # <<FALSE>>
            /\ AllRegistered
            /\ i = Len(call.orders) + 1
            /\ \A j \in 1 .. Len(call.orders) : chain[j].fn = "validateTokenId"

\* the second order's token id is not registered on the exchange of the call
C30_Witness ==
  /\ Done("cancelOrders")
  /\ call.withValidation = <<>>
  /\ call.orders = <<1, 2>>
  /\ call.registry["CTF_EXCHANGE"] = {1}
  /\ Len(chain) = 2
  /\ Threw("InvalidNegRiskConfig")

====
